---- MODULE Spec2Model ----
(***************************************************************************)
(* A model of the "buy credits with USDC" feature of arc-commerce:         *)
(*   - the PurchaseCreditsCard React component (client state machine),     *)
(*   - the route handlers POST /api/circle/payment, GET /api/user-wallets  *)
(*     and GET /api/circle/balance,                                        *)
(*   - the decimal-to-smallest-unit amount conversion of the payment route.*)
(***************************************************************************)
EXTENDS Integers, Sequences, FiniteSets, TLC

(***************************************************************************)
(* IEEE-754 double arithmetic, as far as the sources use it.               *)
(* A non-negative finite double is a record [m, f]: m is an integer, f the *)
(* number of its bits that are fractional, so the value is m * 2^(-f).     *)
(* The integers m exceed the checker's integer range, so they are kept as  *)
(* sequences of limbs (digits in base LimbBase), most significant first,   *)
(* without leading zero limbs; <<>> is 0.                                  *)
(***************************************************************************)

\* Number of significand bits of a JavaScript Number.
MantissaBits == 53

\* Three limbs and a spare bit hold a significand.
LimbBits == MantissaBits \div 3 + 1
LimbBase == 2 ^ LimbBits

RECURSIVE Trim(_)
\* Drops the leading zero limbs.
Trim(L) == IF L # <<>> /\ L[1] = 0 THEN Trim(Tail(L)) ELSE L

\* A natural number below LimbBase^2 as limbs.
NatBig(n) == Trim(<<n \div LimbBase, n % LimbBase>>)

RECURSIVE BigNat(_)
\* The natural number the limbs denote (it has to fit the integer range).
BigNat(L) ==
    IF L = <<>> THEN 0
    ELSE BigNat(SubSeq(L, 1, Len(L) - 1)) * LimbBase + L[Len(L)]

RECURSIVE BigInc(_)
\* L + 1.
BigInc(L) ==
    IF L = <<>> THEN <<1>>
    ELSE IF L[Len(L)] + 1 < LimbBase THEN [L EXCEPT ![Len(L)] = @ + 1]
    ELSE Append(BigInc(SubSeq(L, 1, Len(L) - 1)), 0)

RECURSIVE BigMulFrom(_, _, _, _)
\* The limbs of L[1..i] * k + carry, untrimmed.
BigMulFrom(L, i, k, carry) ==
    IF i = 0 THEN <<carry>>
    ELSE LET v == L[i] * k + carry
         IN  Append(BigMulFrom(L, i - 1, k, v \div LimbBase), v % LimbBase)

\* L * k for a small natural k.
BigMul(L, k) == Trim(BigMulFrom(L, Len(L), k, 0))

RECURSIVE BigDivFrom(_, _, _, _)
\* Long division of the limbs L[i..] by den, rem carried in from the left:
\* [q |-> quotient limbs (untrimmed), r |-> remainder].
BigDivFrom(L, i, den, rem) ==
    IF i > Len(L) THEN [q |-> <<>>, r |-> rem]
    ELSE LET v    == rem * LimbBase + L[i]
             rest == BigDivFrom(L, i + 1, den, v % den)
         IN  [q |-> <<v \div den>> \o rest.q, r |-> rest.r]

\* Bit j (0 is the least significant) of L.
BigBit(L, j) ==
    IF j \div LimbBits >= Len(L) THEN 0
    ELSE (L[Len(L) - j \div LimbBits] \div 2 ^ (j % LimbBits)) % 2

\* The number of bits of L.
BigBitLen(L) ==
    IF L = <<>> THEN 0
    ELSE LimbBits * (Len(L) - 1)
         + (CHOOSE k \in 1..LimbBits : 2 ^ (k - 1) <= L[1] /\ L[1] < 2 ^ k)

\* floor(L / 2^s).
BigShiftRight(L, s) ==
    LET a  == s \div LimbBits
        b  == s % LimbBits
        L1 == SubSeq(L, 1, Len(L) - a)
    IN  Trim([i \in 1..Len(L1) |->
                L1[i] \div 2 ^ b
                + (IF i > 1 THEN (L1[i - 1] % 2 ^ b) * 2 ^ (LimbBits - b) ELSE 0)])

\* L / 2^s rounded to nearest, ties to even; sticky says that the exact
\* value lies strictly above L (digits were already dropped).
BigShiftRound(L, s, sticky) ==
    IF s = 0 THEN L
    ELSE LET q   == BigShiftRight(L, s)
             low == sticky \/ \E j \in 0..(s - 2) : BigBit(L, j) = 1
             up  == BigBit(L, s - 1) = 1 /\ (low \/ BigBit(L, s) = 1)
         IN  IF up THEN BigInc(q) ELSE q

\* The double nearest to the exact value L * 2^(-f) (or above it, if sticky).
RoundToDouble(L, f, sticky) ==
    LET s == IF BigBitLen(L) > MantissaBits THEN BigBitLen(L) - MantissaBits
             ELSE 0
    IN  [m |-> BigShiftRound(L, s, sticky), f |-> f - s]

\* Fractional limbs computed when dividing, enough for any quotient of
\* naturals below LimbBase^2 by a divisor below 2^(LimbBits - 5).
FracLimbs == 4

\* The double nearest to the decimal num / den: what reading a decimal
\* literal, a JSON number or a numeric string yields.
DoubleOfRatio(num, den) ==
    IF num % den = 0 THEN [m |-> NatBig(num \div den), f |-> 0]
    ELSE LET d == BigDivFrom(NatBig(num) \o [i \in 1..FracLimbs |-> 0], 1, den, 0)
         IN  RoundToDouble(Trim(d.q), FracLimbs * LimbBits, d.r # 0)

\* x * k in double arithmetic, k a small natural (exactly representable).
DoubleTimes(x, k) == RoundToDouble(BigMul(x.m, k), x.f, FALSE)

\* Math.floor of a non-negative double, as an integer.
DoubleFloor(x) == BigNat(BigShiftRight(x.m, x.f))

\* Math.round of a non-negative double: floor(x + 0.5).
DoubleRound(x) ==
    DoubleFloor(x) + (IF x.f > 0 THEN BigBit(x.m, x.f - 1) ELSE 0)

RECURSIVE Pow10(_)
Pow10(n) == IF n = 0 THEN 1 ELSE 10 * Pow10(n - 1)


(***************************************************************************)
(* JavaScript values that cross the HTTP boundary.  A string is a sequence *)
(* of one-character strings; a JSON value is Undef, Num(c) (the number     *)
(* c / 100) or Str(s).                                                     *)
(***************************************************************************)

Undef == [t |-> "undefined"]
Num(cents) == [t |-> "number", cents |-> cents]
Str(chars) == [t |-> "string", chars |-> chars]

\* JavaScript truthiness of a JSON value: !v is ~Truthy(v).
Truthy(v) ==
    CASE v.t = "undefined" -> FALSE
      [] v.t = "number"    -> v.cents # 0
      [] v.t = "string"    -> v.chars # <<>>

DigitChars == <<"0", "1", "2", "3", "4", "5", "6", "7", "8", "9">>
IsDigit(ch) == \E i \in 1..Len(DigitChars) : DigitChars[i] = ch
DigitVal(ch) == (CHOOSE i \in 1..Len(DigitChars) : DigitChars[i] = ch) - 1

RECURSIVE DigitRun(_, _)
\* The length of the run of digits of s that starts at index i.
DigitRun(s, i) ==
    IF i <= Len(s) /\ IsDigit(s[i]) THEN 1 + DigitRun(s, i + 1) ELSE 0

RECURSIVE DigitsNat(_)
\* The natural number a sequence of digit characters denotes.
DigitsNat(s) ==
    IF s = <<>> THEN 0
    ELSE 10 * DigitsNat(SubSeq(s, 1, Len(s) - 1)) + DigitVal(s[Len(s)])

\* parseFloat on an unsigned decimal string: the longest prefix of the form
\* digits [ "." digits ] as the exact ratio num / den; nan when the string
\* does not start with a number.
ParseFloat(s) ==
    LET ni == DigitRun(s, 1)
        nf == IF ni + 1 <= Len(s) /\ s[ni + 1] = "." THEN DigitRun(s, ni + 2)
              ELSE 0
    IN  IF ni + nf = 0 THEN [nan |-> TRUE, num |-> 0, den |-> 1]
        ELSE [nan |-> FALSE,
              num |-> DigitsNat(SubSeq(s, 1, ni) \o SubSeq(s, ni + 2, ni + 1 + nf)),
              den |-> Pow10(nf)]

(***************************************************************************)
(* The amount conversion of POST /api/circle/payment.                      *)
(***************************************************************************)

\* amountNum: usdcAmount as a double [nan, d].
AmountNum(usdcAmount) ==
    IF usdcAmount.t = "string"
    THEN LET pf == ParseFloat(usdcAmount.chars)
         IN  [nan |-> pf.nan, d |-> DoubleOfRatio(pf.num, pf.den)]
    ELSE [nan |-> FALSE, d |-> DoubleOfRatio(usdcAmount.cents, 100)]

\* Math.floor(amountNum * 100), the amount in cents.
FloorCents(d) == DoubleFloor(DoubleTimes(d, 100))

\* AmountInSmallestUnit with a negative exponent taken as a division by the
\* power of ten instead of a RangeError.
AmountInSmallestUnitScaledDown(usdcAmount, decimals) ==
    LET amountNum == AmountNum(usdcAmount)
    IN  IF amountNum.nan THEN [threw |-> TRUE, value |-> 0]
        ELSE IF decimals < 2
        THEN [threw |-> FALSE,
              value |-> FloorCents(amountNum.d) \div Pow10(2 - decimals)]
        ELSE [threw |-> FALSE,
              value |-> FloorCents(amountNum.d) * Pow10(decimals - 2)]

\* amountInSmallestUnit as [threw, value]: BigInt() throws a RangeError when
\* it is given NaN, and ** when the exponent decimals - 2 is negative.
AmountInSmallestUnit(usdcAmount, decimals) ==
    LET amountNum == AmountNum(usdcAmount)
    IN  IF amountNum.nan \/ decimals < 2 THEN [threw |-> TRUE, value |-> 0]
        ELSE [threw |-> FALSE,
              value |-> FloorCents(amountNum.d) * Pow10(decimals - 2)]

(***************************************************************************)
(* State.                                                                  *)
(***************************************************************************)

\* The server: the tables, the provider and the requests being served.
VARIABLES
    wallets,        \* the wallets table: a sequence of rows, in table order
    adminWallets,   \* the admin_wallets table: a set of rows
    listing,        \* what getWalletTokenBalance answers
    req,            \* req[r]: the request in slot r, or NoRequest
    pc,             \* pc[r]: where the handler of request r stands
    loc,            \* loc[r]: the handler's local variables
    resp,           \* resp[r]: the response sent, or NoResponse
    circleCalls,    \* the createTransaction calls made, in order
    transactions    \* the rows inserted into the transactions table

serverVars ==
    <<wallets, adminWallets, listing, req, pc, loc, resp, circleCalls, transactions>>

\* The client: the state of the PurchaseCreditsCard component.
VARIABLES
    walletType,             \* "external" | "circle"
    creditsToPurchase,      \* whole credits
    isSubmitting,
    currentTransaction,     \* the txHash of the transaction shown, "" for null
    showConfirmation,
    circleWallets,          \* the wallets GET /api/user-wallets listed
    selectedCircleWalletId, \* "" for null
    circleBalance,          \* Undef for null, or the balance string
    isCircleLoading,
    destination,            \* "" for undefined
    isLoadingDestination,
    ext,                    \* what useAccount and useUsdcBalance return
    balanceFetches,         \* GET /api/circle/balance calls in flight
    calls,                  \* the purchase handlers in flight, oldest first
    toasts                  \* the notifications raised since the latest pay click

cardVars ==
    <<walletType, creditsToPurchase, isSubmitting, currentTransaction,
      showConfirmation, circleWallets, selectedCircleWalletId, circleBalance,
      isCircleLoading, destination, isLoadingDestination, ext, balanceFetches,
      calls, toasts>>

\* The conversion run on its own.
VARIABLES
    convIn,         \* the amount in cents and the token precision given
    convOut         \* the conversion's result, NoConversion before it ran

convVars == <<convIn, convOut>>

vars == <<serverVars, cardVars, convVars>>

(***************************************************************************)
(* The server: the wallets and admin_wallets tables, the provider's token  *)
(* balance listing, and the route handlers.                                *)
(***************************************************************************)

Requests == {"r1", "r2"}

\* process.env.CIRCLE_USDC_TOKEN_ID
usdcTokenId == "usdc-token"

\* String.prototype.toLowerCase / ILIKE on the wallet types that occur.
ToLowerCase(type) ==
    CASE type = "SCA" -> "sca"
      [] type = "Sca" -> "sca"
      [] OTHER -> type

Chars_100_00 == <<"1", "0", "0", ".", "0", "0">>
Chars_25_50 == <<"2", "5", ".", "5", "0">>
Chars_9_99 == <<"9", ".", "9", "9">>
Chars_abc == <<"a", "b", "c">>

WalletRow(user, id, type, created) ==
    [user_id |-> user, circle_wallet_id |-> id, type |-> type,
     blockchain |-> "ARC-TESTNET", created_at |-> created]

\* The contents of the wallets table the model is run on.
WalletTables ==
    { <<>>,
      <<WalletRow("u1", "w1", "EOA", 1)>>,
      <<WalletRow("u1", "w1", "EOA", 1), WalletRow("u1", "w2", "SCA", 2)>>,
      <<WalletRow("u1", "w1", "EOA", 1), WalletRow("u1", "w2", "EOA", 2)>>,
      <<WalletRow("u2", "w3", "SCA", 1), WalletRow("u1", "w1", "sca", 2)>>,
      <<WalletRow("u1", "w1", "SCA", 2), WalletRow("u1", "w2", "Sca", 1)>> }

AdminRow(label, address) == [label |-> label, address |-> address]

\* The contents of the admin_wallets table the model is run on.
AdminTables ==
    { {},
      {AdminRow("Primary wallet", "0xadmin")},
      {AdminRow("Primary wallet", "0xadmin"), AdminRow("Backup wallet", "0xbackup")} }

TokenBalance(id, decimals, amount) ==
    [present |-> TRUE, id |-> id, decimals |-> decimals, amount |-> amount]

\* decimals of a token whose record declares none.
NoDecimals == 0 - 1

\* What the provider answers to getWalletTokenBalance: "reject" (the call
\* throws), "nodata" (a response without data) or the tokenBalances array.
Listings ==
    { [kind |-> "reject", tokenBalances |-> <<>>],
      [kind |-> "nodata", tokenBalances |-> <<>>],
      [kind |-> "data", tokenBalances |-> <<>>],
      [kind |-> "data", tokenBalances |-> <<TokenBalance("eurc-token", 6, Chars_9_99)>>],
      [kind |-> "data", tokenBalances |->
          <<TokenBalance("eurc-token", 6, Chars_9_99),
            TokenBalance(usdcTokenId, 6, Chars_100_00)>>],
      [kind |-> "data", tokenBalances |-> <<TokenBalance(usdcTokenId, 2, Chars_25_50)>>],
      [kind |-> "data", tokenBalances |-> <<TokenBalance(usdcTokenId, 1, Chars_9_99)>>],
      [kind |-> "data", tokenBalances |-> <<TokenBalance(usdcTokenId, 0, Chars_9_99)>>],
      [kind |-> "data", tokenBalances |->
          <<TokenBalance(usdcTokenId, NoDecimals, Chars_100_00)>>] }

\* FindUsdc with the comparison of token ids left out: the first entry.
FindUsdcAnyToken(tokenBalances) ==
    IF tokenBalances = <<>> THEN [present |-> FALSE] ELSE tokenBalances[1]

\* Array.prototype.find: the first entry whose token id is the configured
\* one, or [present |-> FALSE].
FindUsdc(tokenBalances) ==
    LET hits == {i \in 1..Len(tokenBalances) : tokenBalances[i].id = usdcTokenId}
    IN  IF hits = {} THEN [present |-> FALSE]
        ELSE tokenBalances[CHOOSE i \in hits : \A j \in hits : i <= j]

\* usdcToken.token?.decimals ?? 6
DefaultDecimals == 6
Decimals(usdcToken) ==
    IF usdcToken.decimals = NoDecimals THEN DefaultDecimals ELSE usdcToken.decimals

\* The session users of getUser(): "none" is no authenticated user.
AuthUsers == {"none", "u1"}

CreditsInputs == {Undef, Num(0), Num(1000), Num(10000)}
AmountInputs ==
    {Undef, Num(0), Num(29), Num(1000), Num(10000), Str(Chars_25_50), Str(Chars_abc)}

\* A request: the session user its cookies give, and the fields of its body
\* and query string (those it does not send are left at these); dbError
\* tells whether the query of the wallets table fails while it is served.
NoRequest ==
    [endpoint |-> "none", user |-> "none", credits |-> Undef,
     usdcAmount |-> Undef, walletId |-> "", destinationAddress |-> "",
     dbError |-> FALSE]
PaymentRequest(user, credits, usdcAmount) ==
    [NoRequest EXCEPT !.endpoint = "payment", !.user = user,
                      !.credits = credits, !.usdcAmount = usdcAmount]
UserWalletsRequest(user, dbError) ==
    [NoRequest EXCEPT !.endpoint = "user-wallets", !.user = user,
                      !.dbError = dbError]
\* A payment request whose body also names a source wallet and a
\* destination, fields the handler does not read.
ForgedPaymentRequest(user, walletId, destinationAddress) ==
    [PaymentRequest(user, Num(1000), Num(1000)) EXCEPT
        !.walletId = walletId, !.destinationAddress = destinationAddress]
BalanceRequest(user, walletId) ==
    [NoRequest EXCEPT !.endpoint = "balance", !.user = user,
                      !.walletId = walletId]

\* A response: its status and the fields of its JSON body (error = "" when
\* the body has no error field).
NoResponse ==
    [status |-> 0, error |-> "", success |-> FALSE, transactionId |-> "",
     circleTransactionId |-> "", wallets |-> <<>>, balance |-> <<>>]
\* ErrorResponse without the status option: NextResponse.json defaults to 200.
ErrorResponseDefaultStatus(status, message) ==
    [NoResponse EXCEPT !.status = 200, !.error = message]

\* NextResponse.json({ error: message }, { status })
ErrorResponse(status, message) ==
    [NoResponse EXCEPT !.status = status, !.error = message]

NoWallet == WalletRow("", "", "", 0)
NoLocals ==
    [userWallet |-> NoWallet, adminAddress |-> "", decimals |-> 0,
     amountInSmallestUnit |-> 0, circleTransactionId |-> ""]

\* The ids the provider gives the transactions it creates, and the ids the
\* database gives the rows inserted.
CircleIds == <<"ctx-1", "ctx-2", "ctx-3">>
RowIds == <<"row-1", "row-2", "row-3">>

ServerInit ==
    /\ wallets \in WalletTables
    /\ adminWallets \in AdminTables
    /\ listing \in Listings
    /\ req = [r \in Requests |-> NoRequest]
    /\ pc = [r \in Requests |-> "idle"]
    /\ loc = [r \in Requests |-> NoLocals]
    /\ resp = [r \in Requests |-> NoResponse]
    /\ circleCalls = <<>>
    /\ transactions = <<>>

\* The messages of the errors the provider's client and the database throw;
\* an error may carry an empty message.
ThrownMessages == {"", "Circle API error"}
DatabaseMessages == {"", "database error"}

\* error.message || fallback, of the catch blocks.
CatchMessage(message, fallback) == IF message = "" THEN fallback ELSE message

\* The handler of request r returns response.
Respond(r, response) ==
    /\ resp' = [resp EXCEPT ![r] = response]
    /\ pc' = [pc EXCEPT ![r] = "done"]

\* A request arrives in slot r.
Arrive(r, request) ==
    /\ pc[r] = "idle"
    /\ req' = [req EXCEPT ![r] = request]
    /\ pc' = [pc EXCEPT ![r] = "start"]
    /\ UNCHANGED <<wallets, adminWallets, listing, loc, resp, circleCalls, transactions>>
    /\ UNCHANGED <<cardVars, convVars>>

(***************************************************************************)
(* POST /api/circle/payment                                                *)
(***************************************************************************)

\* getUser() and the body check.
PostAuth(r) ==
    /\ pc[r] = "start" /\ req[r].endpoint = "payment"
    /\ IF req[r].user = "none"
       THEN Respond(r, ErrorResponse(401, "Unauthorized"))
       ELSE IF ~Truthy(req[r].credits) \/ ~Truthy(req[r].usdcAmount)
       THEN Respond(r, ErrorResponse(400, "credits and usdcAmount are required"))
       ELSE pc' = [pc EXCEPT ![r] = "wallet"] /\ UNCHANGED resp
    /\ UNCHANGED <<wallets, adminWallets, listing, req, loc, circleCalls, transactions>>
    /\ UNCHANGED <<cardVars, convVars>>

\* OwnedBy without .eq("user_id", user.id): every row of the table.
OwnedByAnyone(user) == 1..Len(wallets)

\* The rows of the wallets table a user owns, as indices.
OwnedBy(user) == {i \in 1..Len(wallets) : wallets[i].user_id = user}

\* .ilike("type", "sca")
IsSca(row) == ToLowerCase(row.type) = "sca"

\* .order("created_at", { ascending: false }).limit(1)
MostRecent(rows) ==
    CHOOSE i \in rows : \A j \in rows : wallets[j].created_at <= wallets[i].created_at

\* 1. The user's wallet: an SCA wallet (the query has no ORDER BY, so any of
\* them), else the most recently created one, else 404.
PostWallet(r) ==
    /\ pc[r] = "wallet"
    /\ LET owned == OwnedBy(req[r].user)
           sca   == {i \in owned : IsSca(wallets[i])}
       IN  IF sca # {}
           THEN /\ \E i \in sca :
                     loc' = [loc EXCEPT ![r].userWallet = wallets[i]]
                /\ pc' = [pc EXCEPT ![r] = "admin"]
                /\ UNCHANGED resp
           ELSE IF owned = {}
           THEN /\ Respond(r, ErrorResponse(404, "Circle Developer Wallet not found. Please create one in the Wallet Demo first."))
                /\ UNCHANGED loc
           ELSE /\ loc' = [loc EXCEPT ![r].userWallet = wallets[MostRecent(owned)]]
                /\ pc' = [pc EXCEPT ![r] = "admin"]
                /\ UNCHANGED resp
    /\ UNCHANGED <<wallets, adminWallets, listing, req, circleCalls, transactions>>
    /\ UNCHANGED <<cardVars, convVars>>

\* 2. The platform admin wallet: .eq("label", "Primary wallet").single()
PostAdmin(r) ==
    /\ pc[r] = "admin"
    /\ LET primary == {a \in adminWallets : a.label = "Primary wallet"}
       IN  IF Cardinality(primary) # 1
           THEN /\ Respond(r, ErrorResponse(500, "Platform admin wallet not configured"))
                /\ UNCHANGED loc
           ELSE /\ loc' = [loc EXCEPT ![r].adminAddress =
                                          (CHOOSE a \in primary : TRUE).address]
                /\ pc' = [pc EXCEPT ![r] = "balances"]
                /\ UNCHANGED resp
    /\ UNCHANGED <<wallets, adminWallets, listing, req, circleCalls, transactions>>
    /\ UNCHANGED <<cardVars, convVars>>

\* 3. getWalletTokenBalance, the lookup of the USDC token and the conversion.
PostBalances(r) ==
    /\ pc[r] = "balances"
    /\ IF listing.kind = "reject"
       THEN /\ \E message \in ThrownMessages :
                   Respond(r, ErrorResponse(500,
                       CatchMessage(message, "An unexpected error occurred")))
            /\ UNCHANGED loc
       ELSE LET usdcToken == FindUsdc(listing.tokenBalances)
            IN  IF ~usdcToken.present
                THEN /\ Respond(r, ErrorResponse(400, "USDC balance not found in wallet."))
                     /\ UNCHANGED loc
                ELSE LET decimals == Decimals(usdcToken)
                         amount   == AmountInSmallestUnit(req[r].usdcAmount, decimals)
                     IN  IF amount.threw
                         THEN /\ Respond(r, ErrorResponse(500,
                                     CatchMessage("RangeError", "An unexpected error occurred")))
                              /\ UNCHANGED loc
                         ELSE /\ loc' = [loc EXCEPT ![r].decimals = decimals,
                                             ![r].amountInSmallestUnit = amount.value]
                              /\ pc' = [pc EXCEPT ![r] = "create"]
                              /\ UNCHANGED resp
    /\ UNCHANGED <<wallets, adminWallets, listing, req, circleCalls, transactions>>
    /\ UNCHANGED <<cardVars, convVars>>

\* circleDeveloperSdk.createTransaction: the provider accepts and returns an
\* id ("id"), answers without one ("noid") or the call throws ("reject").
CreateOutcomes == {"id", "noid", "reject"}

PostCreate(r) ==
    /\ pc[r] = "create"
    /\ Len(circleCalls) < Len(CircleIds)
    /\ \E outcome \in CreateOutcomes :
         LET id == IF outcome = "id" THEN CircleIds[Len(circleCalls) + 1] ELSE ""
         IN  /\ circleCalls' = Append(circleCalls,
                   [request |-> r,
                    walletId |-> loc[r].userWallet.circle_wallet_id,
                    destinationAddress |-> loc[r].adminAddress,
                    amount |-> loc[r].amountInSmallestUnit,
                    tokenId |-> usdcTokenId,
                    id |-> id])
             /\ CASE outcome = "id" ->
                       /\ loc' = [loc EXCEPT ![r].circleTransactionId = id]
                       /\ pc' = [pc EXCEPT ![r] = "insert"]
                       /\ UNCHANGED resp
                  [] outcome = "noid" ->
                       /\ Respond(r, ErrorResponse(500,
                              CatchMessage("Failed to initiate Circle transaction",
                                           "An unexpected error occurred")))
                       /\ UNCHANGED loc
                  [] outcome = "reject" ->
                       /\ \E message \in ThrownMessages :
                              Respond(r, ErrorResponse(500,
                                  CatchMessage(message, "An unexpected error occurred")))
                       /\ UNCHANGED loc
    /\ UNCHANGED <<wallets, adminWallets, listing, req, transactions>>
    /\ UNCHANGED <<cardVars, convVars>>

\* IdempotencyKey with the placeholder hash in place of the provider's id.
IdempotencyKeyPlaceholder(circleTransactionId) == <<"client:", "pending">>

\* `client:${circleTransactionId}`
IdempotencyKey(circleTransactionId) == <<"client:", circleTransactionId>>

\* The row the handler inserts.
TransactionRow(r, id) ==
    [id |-> id,
     request |-> r,
     user_id |-> req[r].user,
     wallet_id |-> loc[r].userWallet.circle_wallet_id,
     direction |-> "credit",
     amount_usdc |-> req[r].usdcAmount,
     credit_amount |-> req[r].credits,
     chain |-> loc[r].userWallet.blockchain,
     asset |-> "USDC",
     tx_hash |-> "pending",
     status |-> "pending",
     idempotency_key |-> IdempotencyKey(loc[r].circleTransactionId),
     circle_transaction_id |-> loc[r].circleTransactionId]

\* ResponseTransactionId without the fallback: transaction?.id alone.
ResponseTransactionIdNoFallback(inserted, rowId, circleTransactionId) ==
    IF inserted THEN rowId ELSE ""

\* transaction?.id || circleTransactionId
ResponseTransactionId(inserted, rowId, circleTransactionId) ==
    IF inserted THEN rowId ELSE circleTransactionId

\* 4. The insert into transactions, which may fail, and the response.
PostInsert(r) ==
    /\ pc[r] = "insert"
    /\ Len(transactions) < Len(RowIds)
    /\ \E inserted \in BOOLEAN :
         LET rowId == RowIds[Len(transactions) + 1]
         IN  /\ transactions' = IF inserted
                                THEN Append(transactions, TransactionRow(r, rowId))
                                ELSE transactions
             /\ Respond(r, [NoResponse EXCEPT
                              !.status = 200,
                              !.success = TRUE,
                              !.transactionId = ResponseTransactionId(
                                  inserted, rowId, loc[r].circleTransactionId),
                              !.circleTransactionId = loc[r].circleTransactionId])
    /\ UNCHANGED <<wallets, adminWallets, listing, req, loc, circleCalls>>
    /\ UNCHANGED <<cardVars, convVars>>

(***************************************************************************)
(* GET /api/user-wallets and GET /api/circle/balance                       *)
(***************************************************************************)

\* The wallets of a user, in table order.
WalletsOf(user) == SelectSeq(wallets, LAMBDA row : row.user_id = user)

GetUserWallets(r) ==
    /\ pc[r] = "start" /\ req[r].endpoint = "user-wallets"
    /\ IF req[r].user = "none"
       THEN Respond(r, ErrorResponse(401, "Unauthorized"))
       ELSE IF req[r].dbError
       THEN \E message \in DatabaseMessages :
                Respond(r, ErrorResponse(500,
                    CatchMessage(message, "Failed to fetch wallets")))
       ELSE Respond(r, [NoResponse EXCEPT !.status = 200,
                                          !.wallets = WalletsOf(req[r].user)])
    /\ UNCHANGED <<wallets, adminWallets, listing, req, loc, circleCalls, transactions>>
    /\ UNCHANGED <<cardVars, convVars>>

\* usdcBalance?.amount || "0"
BalanceOf(usdcBalance) ==
    IF usdcBalance.present /\ usdcBalance.amount # <<>> THEN usdcBalance.amount
    ELSE <<"0">>

GetCircleBalance(r) ==
    /\ pc[r] = "start" /\ req[r].endpoint = "balance"
    /\ IF req[r].walletId = ""
       THEN Respond(r, ErrorResponse(400, "walletId is required"))
       ELSE IF req[r].user = "none"
       THEN Respond(r, ErrorResponse(401, "Unauthorized"))
       ELSE IF listing.kind = "reject"
       THEN \E message \in ThrownMessages :
                Respond(r, ErrorResponse(500,
                    CatchMessage(message, "Failed to fetch balance")))
       ELSE Respond(r, [NoResponse EXCEPT
                          !.status = 200,
                          !.balance = BalanceOf(FindUsdc(listing.tokenBalances))])
    /\ UNCHANGED <<wallets, adminWallets, listing, req, loc, circleCalls, transactions>>
    /\ UNCHANGED <<cardVars, convVars>>

\* The requests the model sends.
RequestInputs ==
    {PaymentRequest(u, c, a) : u \in AuthUsers, c \in CreditsInputs, a \in AmountInputs}
    \cup {UserWalletsRequest(u, e) : u \in AuthUsers, e \in BOOLEAN}
    \cup {BalanceRequest(u, w) : u \in AuthUsers, w \in {"", "w1", "w3"}}
    \cup {ForgedPaymentRequest("u1", "w3", "0xattacker")}

(***************************************************************************)
(* The client: the PurchaseCreditsCard component.                          *)
(***************************************************************************)

USDC_PER_CREDIT == 1
presetUsdcAmounts == {10, 25, 50, 100}

\* The values typed into the credits input, besides the presets.
TypedCredits == {0}

\* Handlers the model lets be in flight at once, and balance fetches.
MaxCalls == 2
MaxBalanceFetches == 2

NullBalance == 0 - 1
ExternalState(connected, usdc, balance, has, loading) ==
    [isConnected |-> connected,
     address |-> IF connected THEN "0xuser" ELSE "",
     usdcAddress |-> IF usdc THEN "0xusdc" ELSE "",
     balance |-> balance, hasBalance |-> has, isLoading |-> loading]

\* The states of the external wallet hooks the model is run on: not
\* connected; connected and loading; a balance one unit short of 10 USDC;
\* exactly 10 USDC; 100 USDC; 100 USDC on a chain without USDC; a balance
\* the hook reports as absent; a balance being refetched.
ExternalStates ==
    { ExternalState(FALSE, TRUE, NullBalance, FALSE, FALSE),
      ExternalState(TRUE, TRUE, NullBalance, FALSE, TRUE),
      ExternalState(TRUE, TRUE, 9999999, TRUE, FALSE),
      ExternalState(TRUE, TRUE, 10000000, TRUE, FALSE),
      ExternalState(TRUE, TRUE, 100000000, TRUE, FALSE),
      ExternalState(TRUE, FALSE, 100000000, TRUE, FALSE),
      ExternalState(TRUE, TRUE, 100000000, FALSE, FALSE),
      ExternalState(TRUE, TRUE, 100000000, TRUE, TRUE) }

\* The wallet lists GET /api/user-wallets answers with.
WalletLists ==
    { <<WalletRow("u1", "w1", "EOA", 1), WalletRow("u1", "w2", "SCA", 2)>>,
      <<WalletRow("u1", "w1", "EOA", 1), WalletRow("u1", "w2", "EOA", 2)>> }

\* The balance strings GET /api/circle/balance answers with.
BalanceStrings == {Str(Chars_100_00), Str(Chars_9_99), Str(<<"0">>)}

Toast(level, title) == [level |-> level, title |-> title]

CardStart(e) ==
    /\ walletType = "external"
    /\ creditsToPurchase = 10
    /\ isSubmitting = FALSE
    /\ currentTransaction = ""
    /\ showConfirmation = FALSE
    /\ circleWallets = <<>>
    /\ selectedCircleWalletId = ""
    /\ circleBalance = Undef
    /\ isCircleLoading = TRUE
    /\ destination = ""
    /\ isLoadingDestination = TRUE
    /\ ext = e
    /\ balanceFetches = 0
    /\ calls = <<>>
    /\ toasts = {}

\* The card as mounted, both fetches of the mount effect in flight.
CardInit == \E e \in ExternalStates : CardStart(e)

requiredUsdc == creditsToPurchase * USDC_PER_CREDIT

\* Math.round(requiredUsdc * 1_000_000) as a BigInt; for whole credits the
\* double product is exact.
MicroPerUsdc == 1000000
requiredUsdcMicro == requiredUsdc * MicroPerUsdc

\* parseFloat(circleBalance) >= requiredUsdc.  The parsed double is compared
\* with a whole number, so it is its floor that decides.
ParsedAtLeast(chars, n) ==
    LET pf == ParseFloat(chars)
    IN  ~pf.nan /\ DoubleFloor(DoubleOfRatio(pf.num, pf.den)) >= n

\* hasSufficientBalance with the custodial comparison left out: any loaded
\* balance counts.
hasSufficientBalanceAnyLoaded ==
    IF walletType = "external"
    THEN IF ext.hasBalance /\ ext.balance # NullBalance
         THEN ext.balance >= requiredUsdcMicro
         ELSE FALSE
    ELSE Truthy(circleBalance)

hasSufficientBalance ==
    IF walletType = "external"
    THEN IF ext.hasBalance /\ ext.balance # NullBalance
         THEN ext.balance >= requiredUsdcMicro
         ELSE FALSE
    ELSE IF Truthy(circleBalance)
         THEN ParsedAtLeast(circleBalance.chars, requiredUsdc)
         ELSE FALSE

isConnected ==
    IF walletType = "external" THEN ext.isConnected ELSE selectedCircleWalletId # ""

\* buttonDisabled without the isSubmitting term.
buttonDisabledWhileIdleOnly ==
    \/ ~isConnected
    \/ ~hasSufficientBalance
    \/ creditsToPurchase <= 0
    \/ destination = ""
    \/ (walletType = "external" /\ ext.usdcAddress = "")
    \/ (walletType = "external" /\ ext.isLoading)

\* buttonDisabled without the !destination term.
buttonDisabledIgnoringDestination ==
    \/ ~isConnected
    \/ ~hasSufficientBalance
    \/ creditsToPurchase <= 0
    \/ (walletType = "external" /\ ext.usdcAddress = "")
    \/ isSubmitting
    \/ (walletType = "external" /\ ext.isLoading)

buttonDisabled ==
    \/ ~isConnected
    \/ ~hasSufficientBalance
    \/ creditsToPurchase <= 0
    \/ destination = ""
    \/ (walletType = "external" /\ ext.usdcAddress = "")
    \/ isSubmitting
    \/ (walletType = "external" /\ ext.isLoading)

\* The credits the input and the preset buttons can set:
\* Math.max(0, Number(value)) and amount / USDC_PER_CREDIT.
CreditChoices == TypedCredits \cup {a \div USDC_PER_CREDIT : a \in presetUsdcAmounts}

\* fetchDestinationWallet completes: with an address, or with an error (a
\* response that is not ok, a body without address, or a failed fetch).
FetchDestinationWalletDone(outcome) ==
    /\ isLoadingDestination
    /\ IF outcome = "address"
       THEN destination' = "0xdest" /\ UNCHANGED toasts
       ELSE /\ toasts' = toasts \cup {Toast("error", "Configuration Error")}
            /\ UNCHANGED destination
    /\ isLoadingDestination' = FALSE
    /\ UNCHANGED <<walletType, creditsToPurchase, isSubmitting, currentTransaction,
                   showConfirmation, circleWallets, selectedCircleWalletId,
                   circleBalance, isCircleLoading, ext, balanceFetches, calls>>
    /\ UNCHANGED <<serverVars, convVars>>

\* data.wallets.find(w => w.type?.toLowerCase() === 'sca') || data.wallets[0]
AutoSelect(list) ==
    LET sca == {i \in 1..Len(list) : ToLowerCase(list[i].type) = "sca"}
    IN  IF sca = {} THEN list[1]
        ELSE list[CHOOSE i \in sca : \A j \in sca : i <= j]

\* fetchCircleWallets completes: with a non-empty list, or with nothing to
\* use (a response that is not ok, an empty list, or a failed fetch).  The
\* balance effect runs when the selection changes.
FetchCircleWalletsDone(list) ==
    /\ isCircleLoading
    /\ IF list # <<>>
       THEN /\ circleWallets' = list
            /\ selectedCircleWalletId' = AutoSelect(list).circle_wallet_id
            /\ walletType' = "circle"
            /\ balanceFetches' = balanceFetches + 1
       ELSE UNCHANGED <<circleWallets, selectedCircleWalletId, walletType, balanceFetches>>
    /\ isCircleLoading' = FALSE
    /\ UNCHANGED <<creditsToPurchase, isSubmitting, currentTransaction,
                   showConfirmation, circleBalance, destination,
                   isLoadingDestination, ext, calls, toasts>>
    /\ UNCHANGED <<serverVars, convVars>>

\* fetchBalance completes: response.ok with data.balance, or not.
FetchBalanceDone(ok, balance) ==
    /\ balanceFetches > 0
    /\ balanceFetches' = balanceFetches - 1
    /\ circleBalance' = IF ok THEN balance ELSE circleBalance
    /\ UNCHANGED <<walletType, creditsToPurchase, isSubmitting, currentTransaction,
                   showConfirmation, circleWallets, selectedCircleWalletId,
                   isCircleLoading, destination, isLoadingDestination, ext,
                   calls, toasts>>
    /\ UNCHANGED <<serverVars, convVars>>

\* The MetaMask / Circle Wallet toggle, shown once wallets are listed; the
\* balance effect runs when walletType changes to "circle".
SetWalletType(type) ==
    /\ Len(circleWallets) > 0
    /\ walletType' = type
    /\ IF type # walletType /\ type = "circle" /\ selectedCircleWalletId # ""
       THEN /\ balanceFetches < MaxBalanceFetches
            /\ balanceFetches' = balanceFetches + 1
       ELSE UNCHANGED balanceFetches
    /\ UNCHANGED <<creditsToPurchase, isSubmitting, currentTransaction,
                   showConfirmation, circleWallets, selectedCircleWalletId,
                   circleBalance, isCircleLoading, destination,
                   isLoadingDestination, ext, calls, toasts>>
    /\ UNCHANGED <<serverVars, convVars>>

\* The credits input and the preset buttons, disabled while submitting.
SetCreditsToPurchase(credits) ==
    /\ ~isSubmitting
    /\ creditsToPurchase' = credits
    /\ UNCHANGED <<walletType, isSubmitting, currentTransaction, showConfirmation,
                   circleWallets, selectedCircleWalletId, circleBalance,
                   isCircleLoading, destination, isLoadingDestination, ext,
                   balanceFetches, calls, toasts>>
    /\ UNCHANGED <<serverVars, convVars>>

\* The external wallet connects, disconnects, changes chain or balance.
ExternalChange(e) ==
    /\ e # ext
    /\ ext' = e
    /\ UNCHANGED <<walletType, creditsToPurchase, isSubmitting, currentTransaction,
                   showConfirmation, circleWallets, selectedCircleWalletId,
                   circleBalance, isCircleLoading, destination,
                   isLoadingDestination, balanceFetches, calls, toasts>>
    /\ UNCHANGED <<serverVars, convVars>>

Call(kind, stage, txHash) ==
    [kind |-> kind, stage |-> stage, credits |-> creditsToPurchase,
     usdcAmount |-> requiredUsdc, txHash |-> txHash]

\* A handler returns before dispatching, raising only a notification.
Refuse(title) ==
    /\ toasts' = {Toast("error", title)}
    /\ UNCHANGED <<isSubmitting, calls>>

\* setIsSubmitting(true) and the dispatch.
Dispatch(kind, stage) ==
    /\ isSubmitting' = TRUE
    /\ calls' = Append(calls, Call(kind, stage, ""))
    /\ toasts' = {}

\* handleExternalPurchase up to writeContractAsync.
handleExternalPurchase ==
    IF ~ext.isConnected \/ ext.address = "" THEN Refuse("Not connected")
    ELSE IF destination = "" THEN Refuse("Configuration error")
    ELSE IF ext.usdcAddress = "" THEN Refuse("Unsupported network")
    ELSE Dispatch("external", "transfer")

\* handleCirclePurchase up to the POST /api/circle/payment.
handleCirclePurchase ==
    IF selectedCircleWalletId = "" THEN Refuse("No Circle wallet selected")
    ELSE Dispatch("circle", "payment")

\* A click on the pay button, which a disabled button does not deliver.
PayClick ==
    /\ ~buttonDisabled
    /\ Len(calls) < MaxCalls
    /\ IF walletType = "external" THEN handleExternalPurchase
       ELSE handleCirclePurchase
    /\ UNCHANGED <<walletType, creditsToPurchase, currentTransaction,
                   showConfirmation, circleWallets, selectedCircleWalletId,
                   circleBalance, isCircleLoading, destination,
                   isLoadingDestination, ext, balanceFetches>>
    /\ UNCHANGED <<serverVars, convVars>>

\* calls without its i-th element.
Without(i) == SubSeq(calls, 1, i - 1) \o SubSeq(calls, i + 1, Len(calls))

\* Finally without setIsSubmitting(false).
FinallyKeepsSubmitting(i) ==
    /\ UNCHANGED isSubmitting
    /\ calls' = Without(i)

\* The finally block of both handlers.
Finally(i) ==
    /\ isSubmitting' = FALSE
    /\ calls' = Without(i)

\* writeContractAsync settles: the wallet returns a hash, and the handler
\* goes on to POST /api/transactions, or the call throws.
WriteContractDone(i, hash) ==
    /\ i \in 1..Len(calls)
    /\ calls[i].kind = "external" /\ calls[i].stage = "transfer"
    /\ IF hash # ""
       THEN /\ toasts' = toasts \cup {Toast("success", "Transaction submitted")}
            /\ calls' = [calls EXCEPT ![i].stage = "recording", ![i].txHash = hash]
            /\ UNCHANGED isSubmitting
       ELSE /\ toasts' = toasts \cup {Toast("error", "Transaction error")}
            /\ Finally(i)
    /\ UNCHANGED <<walletType, creditsToPurchase, currentTransaction,
                   showConfirmation, circleWallets, selectedCircleWalletId,
                   circleBalance, isCircleLoading, destination,
                   isLoadingDestination, ext, balanceFetches>>
    /\ UNCHANGED <<serverVars, convVars>>

\* POST /api/transactions settles: res.ok ("ok"), a response that is not ok
\* ("notok"), or the fetch or res.json() throws ("throw").
RecordingDone(i, outcome) ==
    /\ i \in 1..Len(calls)
    /\ calls[i].kind = "external" /\ calls[i].stage = "recording"
    /\ CASE outcome = "ok" ->
              /\ currentTransaction' = calls[i].txHash
              /\ showConfirmation' = TRUE
              /\ UNCHANGED toasts
         [] outcome = "notok" ->
              /\ toasts' = toasts \cup {Toast("error", "Recording failed")}
              /\ UNCHANGED <<currentTransaction, showConfirmation>>
         [] outcome = "throw" ->
              /\ toasts' = toasts \cup {Toast("error", "Transaction error")}
              /\ UNCHANGED <<currentTransaction, showConfirmation>>
    /\ Finally(i)
    /\ UNCHANGED <<walletType, creditsToPurchase, circleWallets,
                   selectedCircleWalletId, circleBalance, isCircleLoading,
                   destination, isLoadingDestination, ext, balanceFetches>>
    /\ UNCHANGED <<serverVars, convVars>>

\* POST /api/circle/payment settles: response.ok ("ok"), a response that is
\* not ok ("notok"), or the fetch or response.json() throws ("throw").
CirclePaymentDone(i, outcome) ==
    /\ i \in 1..Len(calls)
    /\ calls[i].kind = "circle" /\ calls[i].stage = "payment"
    /\ IF outcome = "ok"
       THEN /\ toasts' = toasts \cup {Toast("success", "Circle payment initiated!")}
            /\ currentTransaction' = "pending"
            /\ showConfirmation' = TRUE
       ELSE /\ toasts' = toasts \cup {Toast("error", "Payment failed")}
            /\ UNCHANGED <<currentTransaction, showConfirmation>>
    /\ Finally(i)
    /\ UNCHANGED <<walletType, creditsToPurchase, circleWallets,
                   selectedCircleWalletId, circleBalance, isCircleLoading,
                   destination, isLoadingDestination, ext, balanceFetches>>
    /\ UNCHANGED <<serverVars, convVars>>

\* handleCloseConfirmation and handleRetry of the confirmation modal.
handleCloseConfirmation ==
    /\ showConfirmation
    /\ showConfirmation' = FALSE
    /\ currentTransaction' = ""
    /\ UNCHANGED <<walletType, creditsToPurchase, isSubmitting, circleWallets,
                   selectedCircleWalletId, circleBalance, isCircleLoading,
                   destination, isLoadingDestination, ext, balanceFetches,
                   calls, toasts>>
    /\ UNCHANGED <<serverVars, convVars>>

(***************************************************************************)
(* The conversion on its own: an amount of cents and a token precision go  *)
(* in, the smallest-unit amount comes out.                                 *)
(***************************************************************************)

\* Largest amount, in cents, and the token precisions converted.
MaxCents == 120
ConvDecimals == {2, 3, 6}

NoConversion == [threw |-> FALSE, value |-> 0 - 1]

ConvIdle == convIn = [cents |-> 0, decimals |-> 0] /\ convOut = NoConversion

Convert ==
    /\ convOut = NoConversion
    /\ convOut' = AmountInSmallestUnit(Num(convIn.cents), convIn.decimals)
    /\ UNCHANGED convIn
    /\ UNCHANGED <<serverVars, cardVars>>

(***************************************************************************)
(* Specifications.                                                         *)
(***************************************************************************)

ServerIdle ==
    /\ wallets = <<>> /\ adminWallets = {} /\ listing = [kind |-> "nodata", tokenBalances |-> <<>>]
    /\ req = [r \in Requests |-> NoRequest]
    /\ pc = [r \in Requests |-> "idle"]
    /\ loc = [r \in Requests |-> NoLocals]
    /\ resp = [r \in Requests |-> NoResponse]
    /\ circleCalls = <<>>
    /\ transactions = <<>>

CardIdle == CardStart(ExternalState(FALSE, TRUE, NullBalance, FALSE, FALSE))

\* The purchase card.
Init == CardInit /\ ServerIdle /\ ConvIdle

Next ==
    \/ \E outcome \in {"address", "error"} : FetchDestinationWalletDone(outcome)
    \/ \E list \in WalletLists \cup {<<>>} : FetchCircleWalletsDone(list)
    \/ \E ok \in BOOLEAN, balance \in BalanceStrings : FetchBalanceDone(ok, balance)
    \/ \E type \in {"external", "circle"} : SetWalletType(type)
    \/ \E credits \in CreditChoices : SetCreditsToPurchase(credits)
    \/ \E e \in ExternalStates : ExternalChange(e)
    \/ PayClick
    \/ \E i \in 1..MaxCalls, hash \in {"", "0xhash"} : WriteContractDone(i, hash)
    \/ \E i \in 1..MaxCalls, outcome \in {"ok", "notok", "throw"} : RecordingDone(i, outcome)
    \/ \E i \in 1..MaxCalls, outcome \in {"ok", "notok", "throw"} : CirclePaymentDone(i, outcome)
    \/ handleCloseConfirmation

Spec == Init /\ [][Next]_vars

\* The purchase card with every network call in flight eventually settling.
Settle ==
    \/ \E i \in 1..MaxCalls, hash \in {"", "0xhash"} : WriteContractDone(i, hash)
    \/ \E i \in 1..MaxCalls, outcome \in {"ok", "notok", "throw"} : RecordingDone(i, outcome)
    \/ \E i \in 1..MaxCalls, outcome \in {"ok", "notok", "throw"} : CirclePaymentDone(i, outcome)

LiveSpec == Spec /\ WF_vars(Settle)

\* The route handlers, serving one request.
ServerInitAll == ServerInit /\ CardIdle /\ ConvIdle

ServerNext ==
    \/ \E request \in RequestInputs : Arrive("r1", request)
    \/ PostAuth("r1")
    \/ PostWallet("r1")
    \/ PostAdmin("r1")
    \/ PostBalances("r1")
    \/ PostCreate("r1")
    \/ PostInsert("r1")
    \/ GetUserWallets("r1")
    \/ GetCircleBalance("r1")

SpecServer == ServerInitAll /\ [][ServerNext]_vars

\* The payment handler serving two requests of one user at once: a second
\* tab, or a retry sent while the first request is still being served.
DuplicateInputs ==
    {PaymentRequest("u1", Num(1000), Num(1000)),
     PaymentRequest("u1", Num(10000), Num(10000))}

DuplicateNext ==
    \/ \E r \in Requests, request \in DuplicateInputs : Arrive(r, request)
    \/ \E r \in Requests : PostAuth(r)
    \/ \E r \in Requests : PostWallet(r)
    \/ \E r \in Requests : PostAdmin(r)
    \/ \E r \in Requests : PostBalances(r)
    \/ \E r \in Requests : PostCreate(r)
    \/ \E r \in Requests : PostInsert(r)

SpecDuplicate == ServerInitAll /\ [][DuplicateNext]_vars

\* The conversion.
ConvInit ==
    /\ convIn \in [cents : 0..MaxCents, decimals : ConvDecimals]
    /\ convOut = NoConversion
    /\ ServerIdle /\ CardIdle

SpecConv == ConvInit /\ [][Convert]_vars

(***************************************************************************)
(* Properties.                                                             *)
(***************************************************************************)

ErrorToasts == {x \in toasts : x.level = "error"}

\* Everything but isSubmitting allows the pay button.
ButtonOtherwiseEnabled ==
    /\ isConnected
    /\ hasSufficientBalance
    /\ creditsToPurchase > 0
    /\ destination # ""
    /\ ~(walletType = "external" /\ (ext.usdcAddress = "" \/ ext.isLoading))

\* C1: while isSubmitting is true no step starts a dispatch, and at most one
\* dispatch (the transfer with its recording, or the payment POST) is in
\* flight at any time.
C1_SingleDispatch ==
    /\ [](Len(calls) <= 1)
    /\ [][isSubmitting => Len(calls') <= Len(calls)]_vars

\* A dispatch is in flight and only isSubmitting keeps the button disabled.
C1_Witness == isSubmitting /\ Len(calls) = 1 /\ ButtonOtherwiseEnabled

\* The requests of the payment endpoint that are answered.
PaymentDone == {r \in Requests : req[r].endpoint = "payment" /\ pc[r] = "done"}

\* No entry of the listing has the configured USDC token id.
NoUsdcEntry ==
    \A i \in 1..Len(listing.tokenBalances) : listing.tokenBalances[i].id # usdcTokenId

IsErrorResponse(response) ==
    response.status \notin 200..299 /\ response.error # "" /\ ~response.success

\* C2: when the listing has no entry with the configured USDC token id,
\* createTransaction is never called and no row is inserted, and a payment
\* request that got as far as the listing is answered with the error
\* "USDC balance not found in wallet." and a status that is not 2xx.
C2_UnmappedTokenShortCircuits ==
    NoUsdcEntry =>
        /\ circleCalls = <<>>
        /\ transactions = <<>>
        /\ \A r \in PaymentDone :
              (loc[r].adminAddress # "" /\ listing.kind # "reject") =>
                  /\ IsErrorResponse(resp[r])
                  /\ resp[r].error = "USDC balance not found in wallet."

\* A payment request was answered "not found" on a listing that holds other
\* tokens only.
C2_Witness ==
    /\ NoUsdcEntry /\ listing.tokenBalances # <<>>
    /\ \E r \in PaymentDone : resp[r].error = "USDC balance not found in wallet."

\* C3: while destination is unset the pay button is disabled and no step
\* starts a dispatch; once the one fetch has failed, destination stays unset
\* and the "Configuration Error" notification has been raised.
DestinationFetchFailed == ~isLoadingDestination /\ destination = ""

C3_NoDestinationNoPayment ==
    /\ [](destination = "" => buttonDisabled)
    /\ [][destination = "" => Len(calls') <= Len(calls)]_vars
    /\ [](DestinationFetchFailed => Toast("error", "Configuration Error") \in toasts)
    /\ [][DestinationFetchFailed => DestinationFetchFailed']_vars

\* The fetch has failed and only the missing destination keeps the Circle
\* Wallet button disabled.
C3_Witness ==
    /\ DestinationFetchFailed
    /\ walletType = "circle" /\ isConnected /\ hasSufficientBalance
    /\ creditsToPurchase > 0 /\ ~isSubmitting

\* C4: every request without an authenticated user is answered 401.
C4_UnauthenticatedIs401 ==
    \A r \in Requests :
        (pc[r] = "done" /\ req[r].user = "none") => resp[r].status = 401

\* The createTransaction calls of request r that returned an id.
AcceptedCalls(r) ==
    {i \in 1..Len(circleCalls) : circleCalls[i].request = r /\ circleCalls[i].id # ""}

RowsOf(r) == {i \in 1..Len(transactions) : transactions[i].request = r}

\* C5: every row inserted belongs to a request whose createTransaction call
\* returned an id, is the only row of that request, has status and tx_hash
\* "pending" and an idempotency key holding that id; a request for 100
\* credits and 100 USDC on a token of 6 decimals dispatches 100000000.
C5_RowAfterAcceptedDispatch ==
    /\ \A i \in 1..Len(transactions) :
          LET row == transactions[i]
          IN  /\ \E c \in AcceptedCalls(row.request) :
                    row.idempotency_key[2] = circleCalls[c].id
              /\ row.status = "pending"
              /\ row.tx_hash = "pending"
              /\ RowsOf(row.request) = {i}
    /\ \A c \in 1..Len(circleCalls) :
          LET r == circleCalls[c].request
          IN  (req[r].credits = Num(10000) /\ req[r].usdcAmount = Num(10000)
               /\ loc[r].decimals = 6)
              => circleCalls[c].amount = 100000000

\* The end-to-end case: 100 credits for 100 USDC dispatched and recorded.
C5_Witness ==
    \E i \in 1..Len(transactions) :
        LET r == transactions[i].request
        IN  /\ req[r].credits = Num(10000) /\ req[r].usdcAmount = Num(10000)
            /\ loc[r].decimals = 6
            /\ \E c \in AcceptedCalls(r) : circleCalls[c].amount = 100000000

\* C6: for an amount of cents / 100 and d >= 2 decimals the conversion
\* yields cents * 10^(d-2), that is round(a * 10^d), exactly.
C6_ConversionExact ==
    convOut # NoConversion =>
        /\ ~convOut.threw
        /\ convOut.value = convIn.cents * Pow10(convIn.decimals - 2)

\* C7: a payment request whose createTransaction call returned an id and
\* whose insert failed is answered 200 with success and the provider's
\* transaction id as transactionId, and without an error field.
InsertFailed(r) ==
    r \in PaymentDone /\ loc[r].circleTransactionId # "" /\ RowsOf(r) = {}

C7_PersistenceFailureTolerated ==
    \A r \in Requests :
        InsertFailed(r) =>
            /\ resp[r].status = 200
            /\ resp[r].success
            /\ resp[r].error = ""
            /\ resp[r].transactionId = loc[r].circleTransactionId
            /\ resp[r].circleTransactionId = loc[r].circleTransactionId

C7_Witness == \E r \in Requests : InsertFailed(r)

\* C8: once the wallet has returned a transaction hash, the attempt raises
\* no error notification, whatever becomes of the recording call.
C8_RecordingFailureNotSurfaced ==
    Toast("success", "Transaction submitted") \in toasts => ErrorToasts = {}

\* C9: isSubmitting becomes true only in a step that starts a dispatch, and
\* never while a prerequisite (destination, connection or selected wallet)
\* is missing; a step that ends a handler leaves isSubmitting false; and
\* every state with isSubmitting true is followed by one where it is false.
C9_SubmittingSettles ==
    /\ [][(~isSubmitting /\ isSubmitting') =>
            (Len(calls') = Len(calls) + 1 /\ destination # "" /\ isConnected)]_vars
    /\ [][Len(calls') < Len(calls) => ~isSubmitting']_vars
    /\ [](isSubmitting <=> calls # <<>>)
    /\ (isSubmitting ~> ~isSubmitting)

\* The recording call of an external purchase is in flight.
C9_Witness ==
    isSubmitting /\ \E i \in 1..Len(calls) : calls[i].stage = "recording"

\* The balance of the active wallet type covers the requirement: a known
\* on-chain balance of at least the required micro-USDC, or a loaded
\* balance string whose decimal value is at least the required USDC.
BalanceCovers ==
    IF walletType = "external"
    THEN ext.balance # NullBalance /\ ext.balance >= creditsToPurchase * 1000000
    ELSE /\ circleBalance.t = "string"
         /\ LET pf == ParseFloat(circleBalance.chars)
            IN  ~pf.nan /\ pf.num >= creditsToPurchase * pf.den

\* C10: the pay button is enabled only if the balance of the active wallet
\* type covers the requirement; 9999999 does not cover 10 USDC.
C10_EnabledOnlyIfCovered ==
    /\ ~buttonDisabled => BalanceCovers
    /\ (walletType = "external" /\ ext.balance = 9999999 /\ creditsToPurchase = 10)
          => buttonDisabled

\* The custodial balance "100.00" enables a purchase of 50 credits.
C10_Witness ==
    /\ walletType = "circle" /\ circleBalance = Str(Chars_100_00)
    /\ creditsToPurchase = 50 /\ ~buttonDisabled

\* C11: a balance request served for a wallet whose listing has no entry
\* with the configured USDC token id is not answered like a wallet with a
\* zero balance, that is, not with status 200 and the balance "0".
C11_MissingTokenNotZeroBalance ==
    \A r \in Requests :
        (/\ pc[r] = "done" /\ req[r].endpoint = "balance"
         /\ req[r].user # "none" /\ req[r].walletId # ""
         /\ listing.kind # "reject" /\ NoUsdcEntry)
        => ~(resp[r].status = 200 /\ resp[r].balance = <<"0">>)

\* The value of a body field in hundredths, 0 - 1 for what is no number.
ValueCents(v) ==
    CASE v.t = "number" -> v.cents
      [] v.t = "string" ->
            LET pf == ParseFloat(v.chars)
            IN  IF pf.nan THEN 0 - 1 ELSE (pf.num * 100) \div pf.den
      [] OTHER -> 0 - 1

\* C12: every row written has amount_usdc equal to credit_amount times the
\* rate of 1 USDC per credit, and every createTransaction call transfers
\* the amount of that credit count in the token's smallest unit.
C12_AmountDerivedFromCredits ==
    /\ \A i \in 1..Len(transactions) :
          ValueCents(transactions[i].amount_usdc)
              = ValueCents(transactions[i].credit_amount) * USDC_PER_CREDIT
    /\ \A c \in 1..Len(circleCalls) :
          LET r == circleCalls[c].request
          IN  circleCalls[c].amount
                  = ValueCents(req[r].credits) * USDC_PER_CREDIT
                        * Pow10(loc[r].decimals - 2)

\* The requests answered.
Answered == {r \in Requests : pc[r] = "done"}

\* C13: a response has an error field exactly when its status is not 2xx,
\* and a response with an error field reports nothing else (no success
\* flag, transaction id, wallet list or balance); this holds for the
\* responses of the catch blocks too.
C13_ErrorResponsesUniform ==
    \A r \in Answered :
        /\ resp[r].status \in 200..599
        /\ (resp[r].error # "") <=> (resp[r].status \notin 200..299)
        /\ resp[r].error # "" => resp[r] = [NoResponse EXCEPT
                                               !.status = resp[r].status,
                                               !.error = resp[r].error]

\* A catch block has answered an error thrown without a message by its
\* fallback text.
C13_Witness ==
    \E r \in Answered :
        /\ resp[r].status = 500
        /\ \/ req[r].endpoint = "payment"
                 /\ resp[r].error = "An unexpected error occurred"
           \/ req[r].endpoint = "user-wallets"
                 /\ resp[r].error = "Failed to fetch wallets"
           \/ req[r].endpoint = "balance"
                 /\ resp[r].error = "Failed to fetch balance"

\* The payment requests answered with success.
Succeeded == {r \in PaymentDone : resp[r].success}

\* C14: whatever the other request has done, a request that has reached
\* createTransaction can call it; every request that got an id has made
\* exactly one accepted call, with an id no other request got; every row
\* carries the key of its own request's provider id, and no two rows share
\* an idempotency_key.
C14_DuplicatesBothDispatch ==
    /\ \A r \in Requests : pc[r] = "create" => ENABLED PostCreate(r)
    /\ \A r \in Requests : pc[r] = "insert" => ENABLED PostInsert(r)
    /\ \A r \in Requests :
          loc[r].circleTransactionId # "" =>
              /\ Cardinality(AcceptedCalls(r)) = 1
              /\ \A s \in Requests \ {r} :
                    loc[s].circleTransactionId # loc[r].circleTransactionId
    /\ \A i \in 1..Len(transactions) :
          transactions[i].idempotency_key
              = <<"client:", loc[transactions[i].request].circleTransactionId>>
    /\ \A i, j \in 1..Len(transactions) :
          i # j => transactions[i].idempotency_key # transactions[j].idempotency_key

\* Two requests with the same body have both succeeded, each with its own
\* createTransaction call and its own row.
C14_Witness ==
    /\ Succeeded = Requests
    /\ req["r1"] = req["r2"]
    /\ Len(circleCalls) = 2 /\ Len(transactions) = 2
    /\ RowsOf("r1") # {} /\ RowsOf("r2") # {}

\* The listing has the USDC token, declared with fewer than 2 decimals.
LowPrecisionUsdc ==
    \E i \in 1..Len(listing.tokenBalances) :
        /\ listing.tokenBalances[i].id = usdcTokenId
        /\ listing.tokenBalances[i].decimals \in {0, 1}

C16_DebitedWalletIsSelected ==
    \A c \in 1..Len(circleCalls) :
        LET user == req[circleCalls[c].request].user
        IN  circleCalls[c].walletId = AutoSelect(WalletsOf(user)).circle_wallet_id

\* C17: every createTransaction call debits a wallet whose row has the
\* user_id of the request's authenticated user, and pays to the address of
\* an admin wallet labelled "Primary wallet", whatever the body names.
C17_DebitsCallersWallet ==
    \A c \in 1..Len(circleCalls) :
        LET call == circleCalls[c]
            user == req[call.request].user
        IN  /\ user # "none"
            /\ \E i \in 1..Len(wallets) :
                  /\ wallets[i].user_id = user
                  /\ wallets[i].circle_wallet_id = call.walletId
            /\ \E a \in adminWallets :
                  a.label = "Primary wallet" /\ a.address = call.destinationAddress

\* A request whose body names another user's wallet and another
\* destination was dispatched, while that other wallet is in the table.
C17_Witness ==
    \E c \in 1..Len(circleCalls) :
        LET call == circleCalls[c]
        IN  /\ req[call.request].walletId = "w3"
            /\ req[call.request].destinationAddress = "0xattacker"
            /\ \E i \in 1..Len(wallets) :
                  wallets[i].circle_wallet_id = "w3" /\ wallets[i].user_id = "u2"
            /\ call.walletId = "w1" /\ call.destinationAddress = "0xadmin"

====
